---- MODULE Spec2Model ----
(***************************************************************************)
(* Multi-modal RAG backend: query analysis (phase 3), the embedder's       *)
(* vector store (phase 2) and multi-stage retrieval with structured        *)
(* response generation (phase 4).                                          *)
(*                                                                         *)
(* Scores are integers in hundredths (0.6 is 60).  The response confidence *)
(* is kept in units of 1/ConfOne so that the mean of up to ten final       *)
(* scores times 0.2 is an exact integer.                                   *)
(***************************************************************************)
EXTENDS Integers, Sequences, FiniteSets, TLC

VARIABLES
    vector_index,     \* MultiModalEmbedder.vector_index: None, or the FAISS index's ntotal
    document_store,   \* MultiModalEmbedder.document_store: position -> stored entry
    visual_store,     \* AdvancedRetriever.visual_store: the visual ids it holds
    document_registry,   \* RAGOrchestrator.document_registry: document id -> metadata
    processing_status,   \* RAGOrchestrator.processing_status: document id -> status
    uploads,          \* process_document coroutines suspended at the file write: id -> file
    next_doc,         \* number of document ids handed out so far (uuid4 is fresh each time)
    query,            \* the query of the call at hand
    history,          \* its conversation_history argument
    analysis,         \* what analyze_query returned (None before the call)
    prev_analysis,    \* what the call before returned, for the same arguments
    retrieval,        \* the RetrievalResult of the call at hand (None when not produced)
    response,         \* what retrieve_and_generate returned or raised (None before)
    calls,            \* the external calls the call at hand made and how each ended
    reply,            \* the dict query_documents or delete_document returned (None before)
    http              \* the HTTP exchange at hand: the request and the response sent (None before)

vars == <<vector_index, document_store, visual_store, document_registry,
          processing_status, uploads, next_doc, query, history,
          analysis, prev_analysis, retrieval, response, calls, reply, http>>

storeVars == <<vector_index, document_store, visual_store, document_registry,
               processing_status, uploads, next_doc>>
callVars == <<query, history, analysis, prev_analysis, retrieval, response, calls, reply, http>>

None == <<>>          \* Python's None, where a record or a list is expected
NoIndex == 0 - 1      \* vector_index = None

-----------------------------------------------------------------------------
(* Bounds of the model *)

MaxWords == 2     \* words in a query of the analysis runs
MaxDocs == 2      \* documents uploaded

-----------------------------------------------------------------------------
(* Text: str.lower, re.findall(r'\b\w+\b'), str.split, the `in` substring test *)

UpperChars == "ABCDEFGHIJKLMNOPQRSTUVWXYZ"
LowerChars == "abcdefghijklmnopqrstuvwxyz"
DigitChars == "0123456789_"

CharAt(s, i) == SubSeq(s, i, i)

CharsOf(s) == {CharAt(s, i) : i \in 1..Len(s)}

\* str.lower() on one character
LowerMap ==
    [c \in CharsOf(UpperChars) |->
        CharAt(LowerChars, CHOOSE i \in 1..Len(UpperChars) : CharAt(UpperChars, i) = c)]

LowerChar(c) == IF c \in DOMAIN LowerMap THEN LowerMap[c] ELSE c

RECURSIVE LowerFrom(_, _)
LowerFrom(s, i) ==
    IF i > Len(s) THEN "" ELSE LowerChar(CharAt(s, i)) \o LowerFrom(s, i + 1)

Lower(s) == LowerFrom(s, 1)

\* the characters \w matches
WordChars == CharsOf(UpperChars) \cup CharsOf(LowerChars) \cup CharsOf(DigitChars)

IsWordChar(c) == c \in WordChars

\* `sub in s` on two Python strings
Contains(s, sub) ==
    \E i \in 1..(Len(s) - Len(sub) + 1) : SubSeq(s, i, i + Len(sub) - 1) = sub

\* any(word in s for word in words)
ContainsAny(s, words) == \E w \in words : Contains(s, w)

\* re.findall(r'\b\w+\b', s): the maximal runs of word characters, in order
RECURSIVE FindWords(_, _, _)
FindWords(s, i, cur) ==
    IF i > Len(s)
    THEN IF cur = "" THEN <<>> ELSE <<cur>>
    ELSE IF IsWordChar(CharAt(s, i))
         THEN FindWords(s, i + 1, cur \o CharAt(s, i))
         ELSE IF cur = "" THEN FindWords(s, i + 1, "")
              ELSE <<cur>> \o FindWords(s, i + 1, "")

\* len(s.split()): the number of maximal runs of non-blank characters
RECURSIVE SplitCount(_, _, _)
SplitCount(s, i, inWord) ==
    IF i > Len(s) THEN 0
    ELSE IF CharAt(s, i) = " " THEN SplitCount(s, i + 1, FALSE)
         ELSE (IF inWord THEN 0 ELSE 1) + SplitCount(s, i + 1, TRUE)

\* [x for x in seq if Keep(x)]
RECURSIVE Filter(_, _)
Filter(seq, keep) ==
    IF seq = <<>> THEN <<>>
    ELSE (IF Head(seq) \in keep THEN <<Head(seq)>> ELSE <<>>) \o Filter(Tail(seq), keep)

Range(seq) == {seq[i] : i \in 1..Len(seq)}

Min(a, b) == IF a <= b THEN a ELSE b

-----------------------------------------------------------------------------
(* Phase 3: QueryProcessor *)

Intents == {"visual", "textual", "hybrid", "comparative", "analytical", "factual", "summary"}

TemplateNames == {"basic_response", "visual_response", "analytical_response",
                  "comparative_response", "summary_response"}

\* _initialize_templates: name -> the fields the pipeline reads
Templates ==
    [n \in TemplateNames |->
        CASE n = "basic_response" ->
               [name |-> n, response_format |-> "structured", include_visuals |-> FALSE]
          [] n = "visual_response" ->
               [name |-> n, response_format |-> "visual_analysis", include_visuals |-> TRUE]
          [] n = "analytical_response" ->
               [name |-> n, response_format |-> "analytical_report", include_visuals |-> TRUE]
          [] n = "comparative_response" ->
               [name |-> n, response_format |-> "comparative_analysis", include_visuals |-> TRUE]
          [] n = "summary_response" ->
               [name |-> n, response_format |-> "structured_summary", include_visuals |-> FALSE]]

VisualVocabulary ==
    {"chart", "graph", "table", "figure", "diagram", "image", "plot",
     "visualization", "visual", "show", "display", "picture", "drawing",
     "trend", "pattern", "data", "statistics", "numbers", "values",
     "comparison", "distribution", "correlation", "relationship"}

AnalyticalVocabulary ==
    {"analyze", "analysis", "insight", "trend", "pattern", "correlation",
     "relationship", "implication", "significance", "conclusion",
     "interpretation", "meaning", "impact", "effect", "cause",
     "reason", "explanation", "methodology", "approach"}

StopWords ==
    {"the", "a", "an", "and", "or", "but", "in", "on", "at", "to", "for", "of",
     "with", "by", "is", "are", "was", "were", "be", "been", "being", "have",
     "has", "had", "do", "does", "did", "will", "would", "could", "should",
     "may", "might", "must", "can", "this", "that", "these", "those", "what",
     "when", "where", "why", "how"}

VisualLiterals == {"chart", "graph", "table", "figure", "visual"}
ComparativeWords ==
    {"compare", "comparison", "versus", "vs", "difference", "similar", "different", "contrast"}
SummaryWords == {"summary", "summarize", "overview", "main points"}
FactualWords == {"what", "when", "where", "who", "which"}
QuestionWords == {"what", "when", "where", "why", "how", "who", "which", "whose", "whom"}
StrongVisualLiterals == {"chart", "graph", "table"}
StrongAnalyticalWords == {"analyze", "analysis", "insight"}
ComplexKeywords == {"analysis", "correlation", "relationship", "implication", "methodology"}
ConjunctionWords == {"and", "also", "additionally", "furthermore"}

\* _extract_keywords: the words that are no stop words and longer than 2
KeepKeywords(words) ==
    Filter(words, {w \in Range(words) : w \notin StopWords /\ Len(w) > 2})

ExtractKeywords(q) == KeepKeywords(FindWords(Lower(q), 1, ""))

\* _extract_visual_keywords
ExtractVisualKeywords(q) == Filter(ExtractKeywords(q), VisualVocabulary)

\* _is_comparative_query
IsComparativeQuery(q) == ContainsAny(Lower(q), ComparativeWords)

\* _has_question_words
HasQuestionWords(q) == ContainsAny(Lower(q), QuestionWords)

\* a call's outcome: the value it returned, or the exception it raised
Return(v) == [raised |-> FALSE, value |-> v]
Raise(e) == [raised |-> TRUE, value |-> e]

\* _detect_intent as it would be with the comparative test before the visual one
DetectIntentComparativeFirst(q, keywords, visual_keywords) ==
    IF IsComparativeQuery(q) THEN "comparative"
    ELSE IF visual_keywords # <<>> \/ ContainsAny(Lower(q), VisualLiterals) THEN "visual"
    ELSE IF \E w \in AnalyticalVocabulary : w \in Range(keywords) THEN "analytical"
    ELSE IF ContainsAny(Lower(q), SummaryWords) THEN "summary"
    ELSE IF ContainsAny(Lower(q), FactualWords) THEN "factual"
    ELSE "textual"

\* _detect_intent as it would be with the summary check before the
\* analytical one
DetectIntentSummaryFirst(q, keywords, visual_keywords) ==
    IF visual_keywords # <<>> \/ ContainsAny(Lower(q), VisualLiterals) THEN "visual"
    ELSE IF IsComparativeQuery(q) THEN "comparative"
    ELSE IF ContainsAny(Lower(q), SummaryWords) THEN "summary"
    ELSE IF \E w \in AnalyticalVocabulary : w \in Range(keywords) THEN "analytical"
    ELSE IF ContainsAny(Lower(q), FactualWords) THEN "factual"
    ELSE "textual"

\* _detect_intent, with query_lower = query.lower()
DetectIntent(q, keywords, visual_keywords) ==
    IF visual_keywords # <<>> \/ ContainsAny(Lower(q), VisualLiterals) THEN "visual"
    ELSE IF IsComparativeQuery(q) THEN "comparative"
    ELSE IF \E w \in AnalyticalVocabulary : w \in Range(keywords) THEN "analytical"
    ELSE IF ContainsAny(Lower(q), SummaryWords) THEN "summary"
    ELSE IF ContainsAny(Lower(q), FactualWords) THEN "factual"
    ELSE "textual"

\* the confidence and complexity of analyze_query's default analysis
DefaultConfidence == 50
DefaultComplexity == 50

\* _calculate_confidence's base_confidence
BaseConfidence == 60

\* _calculate_confidence as it would be starting from the default's 0.5
CalculateConfidenceFromDefault(q, intent, keywords) ==
    Min(DefaultConfidence
          + (IF intent = "visual" /\ ContainsAny(Lower(q), StrongVisualLiterals) THEN 30 ELSE 0)
          + (IF intent = "analytical" /\ \E w \in StrongAnalyticalWords : w \in Range(keywords)
             THEN 20 ELSE 0),
        100)

\* _calculate_confidence
CalculateConfidence(q, intent, keywords) ==
    Min(BaseConfidence
          + (IF intent = "visual" /\ ContainsAny(Lower(q), StrongVisualLiterals) THEN 30 ELSE 0)
          + (IF intent = "analytical" /\ \E w \in StrongAnalyticalWords : w \in Range(keywords)
             THEN 20 ELSE 0),
        100)

\* _assess_complexity
AssessComplexity(q, keywords) ==
    Min(Min(SplitCount(q, 1, FALSE) * 5, 30)
          + Min(Len(Filter(keywords, ComplexKeywords)) * 20, 30)
          + (IF Contains(q, "?") THEN 20 ELSE 0)
          + (IF ContainsAny(Lower(q), ConjunctionWords) THEN 20 ELSE 0),
        100)

\* _requires_visuals as it would be without COMPARATIVE in its list
RequiresVisualsNotComparative(intent, visual_keywords) ==
    intent = "visual" \/ Len(visual_keywords) > 0

\* _requires_visuals as it would be if it looked at the visual keywords only
RequiresVisualsByKeywords(intent, visual_keywords) == Len(visual_keywords) > 0

\* _requires_visuals
RequiresVisuals(intent, visual_keywords) ==
    intent \in {"visual", "comparative"} \/ Len(visual_keywords) > 0

\* _requires_analysis
RequiresAnalysis(intent, keywords) ==
    intent \in {"analytical", "comparative"}
    \/ \E w \in AnalyticalVocabulary : w \in Range(keywords)

\* _select_template as it would be if it looked at the intent only
SelectTemplateByIntent(intent, complexity_score, requires_visuals) ==
    IF intent = "visual" THEN "visual_response"
    ELSE IF intent = "analytical" THEN "analytical_response"
    ELSE IF intent = "comparative" THEN "comparative_response"
    ELSE IF intent = "summary" THEN "summary_response"
    ELSE "basic_response"

\* _select_template
SelectTemplate(intent, complexity_score, requires_visuals) ==
    IF intent = "visual" \/ requires_visuals THEN "visual_response"
    ELSE IF intent = "analytical" THEN "analytical_response"
    ELSE IF intent = "comparative" THEN "comparative_response"
    ELSE IF intent = "summary" THEN "summary_response"
    ELSE "basic_response"

\* analyze_query's except branch: the default analysis
DefaultAnalysis ==
    [intent |-> "textual", confidence |-> DefaultConfidence, keywords |-> <<>>,
     visual_keywords |-> <<>>, complexity_score |-> DefaultComplexity,
     requires_visuals |-> FALSE, requires_analysis |-> FALSE,
     suggested_template |-> "basic_response", metadata |-> <<>>]

\* A query argument is a Python value: a str with its text, or a value of
\* another type (a list, a number), on which .lower() raises AttributeError.
\* A history argument is None, a list of len turns, or a truthy value without
\* len() (a number), on which len() raises TypeError.
StrQuery(text) == [str |-> TRUE, text |-> text]
NonStrQuery == [str |-> FALSE, text |-> ""]

NoHistory == [kind |-> "none", len |-> 0]
ListHistory(n) == [kind |-> "list", len |-> n]
UnsizedHistory == [kind |-> "unsized", len |-> 0]

\* analyze_query's try body: the QueryAnalysis it returns
QueryAnalysis(text, h, keywords, visual_keywords, intent, complexity_score, requires_visuals) ==
    [intent |-> intent,
     confidence |-> CalculateConfidence(text, intent, keywords),
     keywords |-> keywords,
     visual_keywords |-> visual_keywords,
     complexity_score |-> complexity_score,
     requires_visuals |-> requires_visuals,
     requires_analysis |-> RequiresAnalysis(intent, keywords),
     suggested_template |-> SelectTemplate(intent, complexity_score, requires_visuals),
     metadata |-> [query_length |-> Len(text),
                   word_count |-> SplitCount(text, 1, FALSE),
                   has_question_words |-> HasQuestionWords(text),
                   is_comparative |-> IsComparativeQuery(text),
                   conversation_context |-> h.len]]

\* analyze_query's try body from "Calculate confidence" on; len() of the
\* history is taken last, when the metadata is built
WithIntent(text, h, keywords, visual_keywords, intent) ==
    IF h.kind = "unsized" THEN Raise("TypeError")
    ELSE Return(QueryAnalysis(text, h, keywords, visual_keywords, intent,
                              AssessComplexity(text, keywords),
                              RequiresVisuals(intent, visual_keywords)))

\* analyze_query's try body from "Detect intent" on
WithKeywords(text, h, keywords, visual_keywords) ==
    WithIntent(text, h, keywords, visual_keywords,
               DetectIntent(text, keywords, visual_keywords))

\* analyze_query's try body: query.lower() first
AnalysisBody(q, h) ==
    IF ~q.str THEN Raise("AttributeError")
    ELSE WithKeywords(q.text, h, ExtractKeywords(q.text), ExtractVisualKeywords(q.text))

\* except Exception: the default analysis
CatchAnalysis(r) == IF r.raised THEN Return(DefaultAnalysis) ELSE r

\* analyze_query as it would be without its except clause
AnalyzeQueryNoExcept(q, h) == AnalysisBody(q, h)

\* analyze_query
AnalyzeQuery(q, h) == CatchAnalysis(AnalysisBody(q, h))

\* select_response_template
SelectResponseTemplate(a) ==
    IF a.suggested_template \in DOMAIN Templates
    THEN Templates[a.suggested_template]
    ELSE Templates["basic_response"]

-----------------------------------------------------------------------------
(* The queries and histories the calls are made with *)

WordPool ==
    {"chart", "charts", "Show", "trend", "compare", "analyze", "summary",
     "what", "and", "the", "vs", "Q1?", "report"}

RECURSIVE Join(_)
Join(ws) ==
    IF ws = <<>> THEN ""
    ELSE IF Len(ws) = 1 THEN ws[1]
    ELSE ws[1] \o " " \o Join(Tail(ws))

\* longer queries: a comparison without visual terms, a request for a chart,
\* a request for a summary
ScenarioTexts ==
    {"Compare Q1 and Q2 performance", "Show me the chart for Q1 revenue",
     "Summarize the key findings"}

QueryTexts ==
    UNION {{Join(ws) : ws \in [1..k -> WordPool]} : k \in 0..MaxWords} \cup ScenarioTexts

Queries == {StrQuery(t) : t \in QueryTexts} \cup {NonStrQuery}

Histories == {NoHistory, ListHistory(0), ListHistory(1), UnsizedHistory}

-----------------------------------------------------------------------------
(* Phase 1 and 2: what an uploaded file decomposes into, and the embedder *)

NoPage == 0 - 1     \* metadata without a 'page_number' key
NoLink == <<>>      \* visual_link = None

ChunkId(d, page, i) == <<d, "chunk", page, i>>
VisualId(d, page, i) == <<d, "visual", page, i>>
SyntheticId(d, page, i) == <<"synthetic", d, "visual", page, i>>

\* The files that are uploaded.  "report": a page of text with an image on
\* it; "memo": text only; "figure": an image on the second page and no text;
\* "blank": nothing extractable; "corrupt": decompose_document raises on it.
DocKinds == {"report", "memo", "figure", "blank", "corrupt"}

\* A longer file, "manual": MaxPages pages, each with a chunk of text and an
\* image.  Its batch has more entries than the lists of retrieval keep.
MaxPages == 3

ManualChunk(d, page) ==
    [id |-> ChunkId(d, page, 0), content |-> "Manual section",
     content_type |-> "text", page |-> NoPage, visual_link |-> VisualId(d, page, 0)]

ManualSynthetic(d, page) ==
    [id |-> SyntheticId(d, page, 0),
     content |-> "Description: bar chart\nVisual type: image\nPage: " \o ToString(page + 1),
     content_type |-> "synthetic_visual", page |-> page,
     visual_link |-> VisualId(d, page, 0)]

ManualBatch(d) ==
    [i \in 1..MaxPages |-> ManualChunk(d, i - 1)]
      \o [i \in 1..MaxPages |-> ManualSynthetic(d, i - 1)]

\* embed_documents: the text chunks, then the synthetic documents made of the
\* visual elements.  A text chunk's metadata has no page_number; a synthetic
\* document's metadata has the visual's.
EmbedDocuments(kind, d) ==
    CASE kind = "report" ->
           << [id |-> ChunkId(d, 0, 0), content |-> "Revenue trend Summary",
               content_type |-> "text", page |-> NoPage,
               visual_link |-> VisualId(d, 0, 0)],
              [id |-> SyntheticId(d, 0, 0),
               content |-> "Description: bar chart\nVisual type: image\nPage: 1",
               content_type |-> "synthetic_visual", page |-> 0,
               visual_link |-> VisualId(d, 0, 0)] >>
      [] kind = "memo" ->
           << [id |-> ChunkId(d, 0, 0), content |-> "Plain memo",
               content_type |-> "text", page |-> NoPage, visual_link |-> NoLink] >>
      [] kind = "figure" ->
           << [id |-> SyntheticId(d, 1, 0),
               content |-> "Visual type: image\nPage: 2",
               content_type |-> "synthetic_visual", page |-> 1,
               visual_link |-> VisualId(d, 1, 0)] >>
      [] kind = "manual" -> ManualBatch(d)
      [] OTHER -> << >>

\* the visual elements decompose_document found
VisualElements(kind, d) ==
    CASE kind = "report" -> {VisualId(d, 0, 0)}
      [] kind = "figure" -> {VisualId(d, 1, 0)}
      [] kind = "manual" -> {VisualId(d, page, 0) : page \in 0..(MaxPages - 1)}
      [] OTHER -> {}

\* store_vectors: the index is created on first use; the vectors are appended
\* to it; the metadata is written under enumerate()'s positions 0..n-1.  An
\* empty batch raises in normalize_L2, after the index was created.
IndexTotal(index) == IF index = NoIndex THEN 0 ELSE index

\* store_vectors as it would be seen by a search running between its
\* index.add and its loop over the metadata: the vectors without the entries
StoreVectorsIndexOnly(index, store, batch) ==
    IF batch = <<>>
    THEN [raised |-> TRUE, index |-> IndexTotal(index), store |-> store]
    ELSE [raised |-> FALSE, index |-> IndexTotal(index) + Len(batch), store |-> store]

StoreVectors(index, store, batch) ==
    IF batch = <<>>
    THEN [raised |-> TRUE, index |-> IndexTotal(index), store |-> store]
    ELSE [raised |-> FALSE,
          index |-> IndexTotal(index) + Len(batch),
          store |-> [i \in DOMAIN store \cup (0..(Len(batch) - 1)) |->
                        IF i < Len(batch) THEN batch[i + 1] ELSE store[i]]]

\* The similarity search is the embedding model's and FAISS's: a call raises,
\* or ranks the index positions in one of two orders, scored by rank.
SearchOrders == {"ascending", "descending"}
SearchOutcomes == {"raise"} \cup SearchOrders

\* the index position FAISS returns at rank r (1-based) among n vectors
PositionAt(order, r, n) == IF order = "ascending" THEN r - 1 ELSE n - r

\* the inner product it returns at rank r: non-increasing in r
SimilarityAt(order, r) == IF order = "ascending" THEN 90 - 20 * (r - 1) ELSE 60 - 30 * (r - 1)

\* search_similar when it does not raise: the top_k ranks that exist (the
\* others come back as position -1), those with a metadata entry kept
ResultAt(store, idx, score, r) ==
    IF idx \in DOMAIN store
    THEN << [id |-> store[idx].id, content |-> store[idx].content,
             content_type |-> store[idx].content_type,
             page |-> store[idx].page,
             visual_link |-> store[idx].visual_link,
             similarity_score |-> score,
             rank |-> r] >>
    ELSE <<>>

RECURSIVE SearchFrom(_, _, _, _, _)
SearchFrom(index, store, order, top_k, r) ==
    IF r > Min(top_k, index) THEN <<>>
    ELSE ResultAt(store, PositionAt(order, r, index), SimilarityAt(order, r), r)
         \o SearchFrom(index, store, order, top_k, r + 1)

\* search_similar
SearchSimilar(index, store, outcome, top_k) ==
    IF index = NoIndex THEN Raise("Vector store not initialized")
    ELSE IF outcome = "raise" THEN Raise("search failed")
    ELSE Return(SearchFrom(index, store, outcome, top_k, 1))

-----------------------------------------------------------------------------
(* Phase 4: AdvancedRetriever *)

Take(seq, n) == SubSeq(seq, 1, Min(n, Len(seq)))

\* except Exception: return []
CatchSearch(r) == IF r.raised THEN Return(<<>>) ELSE r

\* _primary_retrieval as it would be without its except clause
PrimaryRetrievalNoExcept(index, store, outcome, top_k) ==
    SearchSimilar(index, store, outcome, top_k)

\* _primary_retrieval: the search's exception is caught and logged
PrimaryRetrieval(index, store, outcome, top_k) ==
    CatchSearch(SearchSimilar(index, store, outcome, top_k))

\* _visual_retrieval's filter loop
KeepVisual(r) ==
    IF r.raised THEN r
    ELSE Return(SelectSeq(r.value, LAMBDA x : x.content_type = "synthetic_visual"))

\* _visual_retrieval as it would be without its filter on content_type
VisualRetrievalUnfiltered(index, store, outcome) ==
    SearchSimilar(index, store, outcome, 5)

\* _visual_retrieval: no try; the candidates of type synthetic_visual are kept
VisualRetrieval(index, store, outcome) ==
    KeepVisual(SearchSimilar(index, store, outcome, 5))

\* the page numbers of _context_expansion's set, in the order it is iterated
PageNumbersOf(results) == {results[i].page : i \in 1..Len(results)} \ {NoPage}

MinOf(S) == CHOOSE x \in S : \A y \in S : x <= y

RECURSIVE Ascending(_)
Ascending(S) == IF S = {} THEN <<>> ELSE <<MinOf(S)>> \o Ascending(S \ {MinOf(S)})

\* a page's results that equal no dict of primary_results or visual_results
NotAlreadyIn(page_results, primary, visual) ==
    SelectSeq(page_results, LAMBDA x : x \notin Range(primary) /\ x \notin Range(visual))

\* _context_expansion's loop over the pages: one search per page, no try.
\* searched counts the searches made; the last one is the one that raised.
RECURSIVE ContextFrom(_, _, _, _, _, _, _, _)
ContextStep(index, store, primary, visual, outcomes, pages, acc, searched, r) ==
    IF r.raised
    THEN [raised |-> TRUE, value |-> r.value, searched |-> searched + 1]
    ELSE ContextFrom(index, store, primary, visual, outcomes, Tail(pages),
                     acc \o NotAlreadyIn(r.value, primary, visual), searched + 1)

ContextFrom(index, store, primary, visual, outcomes, pages, acc, searched) ==
    IF pages = <<>>
    THEN [raised |-> FALSE, value |-> Take(acc, 5), searched |-> searched]
    ELSE ContextStep(index, store, primary, visual, outcomes, pages, acc, searched,
                     SearchSimilar(index, store, outcomes[Head(pages)], 3))

\* _context_expansion
ContextExpansion(index, store, primary, visual, outcomes) ==
    ContextFrom(index, store, primary, visual, outcomes,
                Ascending(PageNumbersOf(primary \o visual)), <<>>, 0)

\* _calculate_relevance_score as it would be without its min(base_score, 1.0)
RelevanceOfUnclamped(a, result, content_lower) ==
    result.similarity_score
      + (IF a.requires_visuals /\ result.content_type = "synthetic_visual"
         THEN 20 ELSE 0)
      + (IF Contains(content_lower, a.intent) THEN 10 ELSE 0)
      + 5 * Len(SelectSeq(a.visual_keywords, LAMBDA k : Contains(content_lower, k)))

\* _calculate_relevance_score, with content_lower = content.lower()
RelevanceOf(a, result, content_lower) ==
    Min(result.similarity_score
          + (IF a.requires_visuals /\ result.content_type = "synthetic_visual"
             THEN 20 ELSE 0)
          + (IF Contains(content_lower, a.intent) THEN 10 ELSE 0)
          + 5 * Len(SelectSeq(a.visual_keywords, LAMBDA k : Contains(content_lower, k))),
        100)

CalculateRelevanceScore(a, result) == RelevanceOf(a, result, Lower(result.content))

\* result['final_score'] = score
WithFinalScore(a, result) ==
    [id |-> result.id, content |-> result.content, content_type |-> result.content_type,
     page |-> result.page, visual_link |-> result.visual_link,
     similarity_score |-> result.similarity_score, rank |-> result.rank,
     final_score |-> CalculateRelevanceScore(a, result)]

ScoreAll(a, results) == [i \in 1..Len(results) |-> WithFinalScore(a, results[i])]

\* list.sort(key=final_score, reverse=True): stable, equal scores keep their order
RECURSIVE InsertByScore(_, _)
InsertByScore(sorted, x) ==
    IF sorted = <<>> THEN <<x>>
    ELSE IF Head(sorted).final_score >= x.final_score
         THEN <<Head(sorted)>> \o InsertByScore(Tail(sorted), x)
         ELSE <<x>> \o sorted

RECURSIVE SortByScore(_, _)
SortByScore(results, sorted) ==
    IF results = <<>> THEN sorted
    ELSE SortByScore(Tail(results), InsertByScore(sorted, Head(results)))

\* _rerank_results as it would be if it dropped the candidates whose
\* final_score is not positive
RerankedPositive(scored) ==
    [scored |-> scored,
     top |-> Take(SortByScore(SelectSeq(scored, LAMBDA x : x.final_score > 0), <<>>), 10)]

\* _rerank_results as it would be without the [:10] of its return
RerankedAll(scored) == [scored |-> scored, top |-> SortByScore(scored, <<>>)]

\* what _rerank_results leaves: the dicts of all_results with final_score
\* written into them, and the list it returns
Reranked(scored) == [scored |-> scored, top |-> Take(SortByScore(scored, <<>>), 10)]

\* _rerank_results
RerankResults(a, all_results) == Reranked(ScoreAll(a, all_results))

\* the search calls of a run: the stage of each and whether it raised
SearchCall(stage, raised) == [stage |-> stage, raised |-> raised]

ContextCalls(c) ==
    [i \in 1..c.searched |-> SearchCall("context", c.raised /\ i = c.searched)]

Failed(r, searches) == [raised |-> TRUE, value |-> r.value, searches |-> searches]

\* _multi_stage_retrieval's RetrievalResult.  The dicts of the three stage
\* lists are the ones re-ranking wrote final_score into.
RetrievalResult(primary, visual, context, reranked, searches) ==
    [raised |-> FALSE,
     value |-> [primary_results |-> SubSeq(reranked.scored, 1, Len(primary)),
                visual_results |-> SubSeq(reranked.scored, Len(primary) + 1,
                                          Len(primary) + Len(visual)),
                context_results |-> SubSeq(reranked.scored,
                                           Len(primary) + Len(visual) + 1,
                                           Len(reranked.scored)),
                reranked_results |-> reranked.top,
                retrieval_metadata |->
                    [total_retrieved |-> Len(reranked.top),
                     visual_count |-> Len(visual),
                     primary_count |-> Len(primary),
                     context_count |-> Len(context)]],
     searches |-> searches]

\* _multi_stage_retrieval after stage 3: stage 4 and the result
AfterContext(a, primary, visual, searches, c) ==
    IF c.raised THEN Failed(c, searches \o ContextCalls(c))
    ELSE RetrievalResult(primary, visual, c.value,
                         RerankResults(a, primary \o visual \o c.value),
                         searches \o ContextCalls(c))

\* _multi_stage_retrieval after stage 2
AfterVisual(index, store, a, co, primary, searches, v) ==
    IF v.raised THEN Failed(v, searches)
    ELSE AfterContext(a, primary, v.value, searches,
                      ContextExpansion(index, store, primary, v.value, co))

\* _multi_stage_retrieval, stage 2 when analysis.requires_visuals
VisualStage(index, store, a, co, primary, searches, v) ==
    AfterVisual(index, store, a, co, primary,
                searches \o <<SearchCall("visual", v.raised)>>, v)

\* _multi_stage_retrieval after stage 1
AfterPrimary(index, store, a, vo, co, p, searches) ==
    IF p.raised THEN Failed(p, searches)
    ELSE IF a.requires_visuals
         THEN VisualStage(index, store, a, co, p.value, searches,
                          VisualRetrieval(index, store, vo))
         ELSE AfterVisual(index, store, a, co, p.value, searches, Return(<<>>))

\* _multi_stage_retrieval.  po, vo and co[page] are what the primary, the
\* visual and each page's search do.
MultiStageRetrieval(index, store, a, po, vo, co) ==
    AfterPrimary(index, store, a, vo, co,
                 PrimaryRetrieval(index, store, po, 10),
                 <<SearchCall("primary", SearchSimilar(index, store, po, 10).raised)>>)

\* 1.0 of a response confidence: hundredths times ConfUnit, so that
\* 0.2 * mean(final_score) over up to ten candidates is an integer
ConfUnit == 5 * 2520
ConfOne == 100 * ConfUnit

ApologyProcessing ==
    "I apologize, but I encountered an error processing your request. Please try again."
ApologyGeneration == "I apologize, but I encountered an error generating the response."
ApologyNoText == "I apologize, but I couldn't generate a response."

\* model.generate_content: it raises, or returns a response whose text is
\* empty, at most 100 characters long, or longer
GenerationOutcomes == {"raise", "empty", "short", "long"}

GeneratedText(g) ==
    CASE g = "short" -> "Revenue grew in the first quarter."
      [] g = "long" ->
           "Revenue grew in the first quarter, as the bar chart on page 1 shows; "
           \o "the trend continues over the following two quarters."
      [] OTHER -> ""

\* generate_user_prompt's content sections: the text items and, when the
\* template includes visuals, the visual items of the retrieved content
UserPromptItems(template, retrieved_content) ==
    [template |-> template.name,
     text_items |->
         Min(5, Len(SelectSeq(retrieved_content,
                              LAMBDA x : x.content_type # "synthetic_visual"))),
     visual_items |->
         IF template.include_visuals
         THEN Min(3, Len(SelectSeq(retrieved_content,
                                   LAMBDA x : x.content_type = "synthetic_visual")))
         ELSE 0]

PageOf(result) == IF result.page = NoPage THEN 0 ELSE result.page

\* _extract_sources
SourceOf(result) ==
    [content |-> Take(result.content, 200) \o "...",
     page |-> PageOf(result) + 1,
     type |-> result.content_type,
     relevance_score |-> result.final_score]

ExtractSources(results) == [i \in 1..Min(3, Len(results)) |-> SourceOf(results[i])]

\* _extract_visuals
VisualOf(result) ==
    [id |-> result.visual_link,
     description |-> result.content,
     page |-> PageOf(result) + 1,
     relevance_score |-> result.final_score]

VisualsOf(kept) == [i \in 1..Len(kept) |-> VisualOf(kept[i])]

ExtractVisuals(visuals, visual_results) ==
    VisualsOf(SelectSeq(Take(visual_results, 3),
                        LAMBDA x : x.visual_link # NoLink /\ x.visual_link \in visuals))

RECURSIVE SumFinalScores(_)
SumFinalScores(results) ==
    IF results = <<>> THEN 0 ELSE Head(results).final_score + SumFinalScores(Tail(results))

\* _calculate_response_confidence as it would be with the confidence capped
\* at 0.3 when nothing was retrieved
CalculateResponseConfidenceCapped(a, rr, response_length) ==
    IF rr.reranked_results = <<>>
    THEN Min(a.confidence * ConfUnit, 30 * ConfUnit)
    ELSE Min(a.confidence * ConfUnit
               + (SumFinalScores(rr.reranked_results) * ConfUnit)
                    \div (5 * Len(rr.reranked_results))
               + (IF response_length > 100 THEN 10 * ConfUnit ELSE 0)
               + (IF a.requires_visuals /\ rr.visual_results # <<>> THEN 10 * ConfUnit ELSE 0),
             ConfOne)

\* _calculate_response_confidence as it would be without its min(base, 1.0)
CalculateResponseConfidenceUnclamped(a, rr, response_length) ==
    a.confidence * ConfUnit
      + (IF Len(rr.reranked_results) > 0
         THEN (SumFinalScores(rr.reranked_results) * ConfUnit)
                  \div (5 * Len(rr.reranked_results))
         ELSE 0)
      + (IF response_length > 100 THEN 10 * ConfUnit ELSE 0)
      + (IF a.requires_visuals /\ rr.visual_results # <<>> THEN 10 * ConfUnit ELSE 0)

\* _calculate_response_confidence
CalculateResponseConfidence(a, rr, response_length) ==
    Min(a.confidence * ConfUnit
          + (IF Len(rr.reranked_results) > 0
             THEN (SumFinalScores(rr.reranked_results) * ConfUnit)
                      \div (5 * Len(rr.reranked_results))
             ELSE 0)
          + (IF response_length > 100 THEN 10 * ConfUnit ELSE 0)
          + (IF a.requires_visuals /\ rr.visual_results # <<>> THEN 10 * ConfUnit ELSE 0),
        ConfOne)

ErrorResponse(content, cause) ==
    [content |-> content, sources |-> <<>>, visuals |-> <<>>, confidence_score |-> 0,
     response_type |-> "error", metadata |-> [error |-> cause]]

\* the response as it would be with an empty re-ranked list reported as an error
StructuredResponseNoEvidenceError(visuals, a, template, rr, content) ==
    [content |-> content,
     sources |-> ExtractSources(rr.reranked_results),
     visuals |-> ExtractVisuals(visuals, rr.visual_results),
     confidence_score |-> CalculateResponseConfidence(a, rr, Len(content)),
     response_type |-> IF rr.reranked_results = <<>> THEN "error"
                       ELSE template.response_format,
     metadata |-> [query_intent |-> a.intent,
                   template_used |-> template.name,
                   retrieval_stats |-> rr.retrieval_metadata,
                   response_length |-> Len(content)]]

\* _generate_structured_response from "Process response" on
StructuredResponse(visuals, a, template, rr, content) ==
    [content |-> content,
     sources |-> ExtractSources(rr.reranked_results),
     visuals |-> ExtractVisuals(visuals, rr.visual_results),
     confidence_score |-> CalculateResponseConfidence(a, rr, Len(content)),
     response_type |-> template.response_format,
     metadata |-> [query_intent |-> a.intent,
                   template_used |-> template.name,
                   retrieval_stats |-> rr.retrieval_metadata,
                   response_length |-> Len(content)]]

\* _generate_structured_response's try body.  prompts lists the prompts
\* generate_content was invoked with.
GenerationBody(visuals, a, template, rr, g) ==
    [raised |-> g = "raise",
     value |-> IF g = "raise" THEN ErrorResponse("", "generation failed")
               ELSE StructuredResponse(visuals, a, template, rr,
                        IF g = "empty" THEN ApologyNoText ELSE GeneratedText(g)),
     prompts |-> <<UserPromptItems(template, Take(rr.reranked_results, 5))>>]

\* except Exception: the error-typed response
CatchGeneration(r) ==
    IF r.raised
    THEN [raised |-> FALSE,
          value |-> ErrorResponse(ApologyGeneration, r.value.metadata.error),
          prompts |-> r.prompts]
    ELSE r

\* _generate_structured_response as it would be without its except clause
GenerateStructuredResponseNoExcept(visuals, a, template, rr, g) ==
    GenerationBody(visuals, a, template, rr, g)

\* _generate_structured_response
GenerateStructuredResponse(visuals, a, template, rr, g) ==
    CatchGeneration(GenerationBody(visuals, a, template, rr, g))

\* what a run of retrieve_and_generate did: its outcome (value is the
\* GeneratedResponse, or when raised an error-typed one carrying the cause),
\* the analysis, the RetrievalResult if one was produced, and the calls made
Run(raised, value, a, rr, searches, prompts) ==
    [raised |-> raised, value |-> value, analysis |-> a, retrieval |-> rr,
     searches |-> searches, prompts |-> prompts]

\* retrieve_and_generate when analyze_query raised
AnalysisFailed(a) == Run(TRUE, ErrorResponse("", a.value), None, None, <<>>, <<>>)

\* retrieve_and_generate, steps 3 and 4
Synthesis(a, m, r) == Run(r.raised, r.value, a, m.value, m.searches, r.prompts)

\* retrieve_and_generate's try body after step 2
AfterRetrieval(visuals, a, m, g) ==
    IF m.raised
    THEN Run(TRUE, ErrorResponse("", m.value), a, None, m.searches, <<>>)
    ELSE Synthesis(a, m,
             GenerateStructuredResponse(visuals, a, SelectResponseTemplate(a), m.value, g))

\* retrieve_and_generate as it would be without its except clause
CatchAllReraise(r) == r

\* retrieve_and_generate's except Exception: the error-typed response
CatchAll(r) ==
    IF r.raised
    THEN Run(FALSE, ErrorResponse(ApologyProcessing, r.value.metadata.error),
             r.analysis, r.retrieval, r.searches, r.prompts)
    ELSE r

-----------------------------------------------------------------------------
(* The orchestrator's document processing *)

EmptyMap == <<>>

Put(map, k, v) == [x \in DOMAIN map \cup {k} |-> IF x = k THEN v ELSE map[x]]
Remove(map, k) == [x \in DOMAIN map \ {k} |-> map[x]]

Status(status, phase, progress) == [status |-> status, phase |-> phase, progress |-> progress]

\* process_document up to its await of the file write: a fresh document id,
\* and the status entry 'processing' / 'saving_file' / 0
ProcessBegin(kind) ==
    /\ response = None
    /\ next_doc < MaxDocs
    /\ next_doc' = next_doc + 1
    /\ processing_status' =
           Put(processing_status, next_doc + 1, Status("processing", "saving_file", 0))
    /\ uploads' = Put(uploads, next_doc + 1, kind)
    /\ UNCHANGED <<vector_index, document_store, visual_store, document_registry>>
    /\ UNCHANGED callVars

\* process_document from store_vectors on, for a file that decomposed
StoreDocument(d, batch, visual_elements, stored) ==
    /\ vector_index' = stored.index
    /\ document_store' = stored.store
    /\ IF stored.raised
       THEN /\ processing_status' =
                   Put(processing_status, d, Status("error", "embedding", 50))
            /\ UNCHANGED <<visual_store, document_registry>>
       ELSE /\ visual_store' = visual_store \cup visual_elements
            /\ document_registry' =
                   Put(document_registry, d,
                       [id |-> d, total_vectors |-> Len(batch),
                        visual_elements |-> Cardinality(visual_elements)])
            /\ processing_status' =
                   Put(processing_status, d, Status("completed", "completed", 100))

\* process_document from the file write on, which has no further await:
\* decomposition raises (a corrupt file), or it succeeds and the vectors
\* are stored, the visual elements and the registry entry added and the
\* status completed; store_vectors raising ends it in 'error' too.
ProcessDocument(d) ==
    /\ response = None
    /\ d \in DOMAIN uploads
    /\ uploads' = Remove(uploads, d)
    /\ UNCHANGED next_doc
    /\ IF uploads[d] = "corrupt"
       THEN /\ processing_status' =
                   Put(processing_status, d, Status("error", "decomposition", 25))
            /\ UNCHANGED <<vector_index, document_store, visual_store, document_registry>>
       ELSE StoreDocument(d, EmbedDocuments(uploads[d], d), VisualElements(uploads[d], d),
                          StoreVectors(vector_index, document_store,
                                       EmbedDocuments(uploads[d], d)))

\* the rest of a process_document coroutine, run for a caller other than
\* the server
ProcessRun(d) ==
    /\ ProcessDocument(d)
    /\ UNCHANGED callVars

-----------------------------------------------------------------------------
(* Calls of retrieve_and_generate *)

\* the calls made: a query and its conversation_history
PipelineCalls ==
    {<<StrQuery(""), NoHistory>>,
     <<StrQuery("Show chart"), NoHistory>>,
     <<StrQuery("Show chart"), UnsizedHistory>>,
     <<StrQuery("compare"), ListHistory(1)>>,
     <<StrQuery("analyze trend"), NoHistory>>,
     <<StrQuery("what report"), NoHistory>>,
     <<NonStrQuery, NoHistory>>}

\* what a search call can do in the state at hand
OutcomesNow == IF vector_index = NoIndex THEN {"raise"} ELSE SearchOutcomes

ListOf(r) == IF r.raised THEN <<>> ELSE r.value

\* generate_content was not reached
NotCalled == "not called"

\* retrieve_and_generate has returned (or raised)
Returned(q, h, g, r) ==
    /\ query' = q
    /\ history' = h
    /\ analysis' = (IF r.analysis = None THEN None ELSE Return(r.analysis))
    /\ retrieval' = r.retrieval
    /\ response' = [raised |-> r.raised, value |-> r.value]
    /\ calls' = [searches |-> r.searches, prompts |-> r.prompts, generation |-> g]

\* steps 3 and 4 of a run whose retrieval gave m: g is what generate_content
\* does when it is reached
QueryGenerate(q, h, a, m) ==
    \E g \in (IF m.raised THEN {NotCalled} ELSE GenerationOutcomes) :
      Returned(q, h, g, CatchAll(AfterRetrieval(visual_store, a, m, g)))

\* the page searches of a run whose visual stage gave v: co[page] is what
\* the search for that page does
QueryContext(q, h, a, po, vo, primary, v) ==
    \E co \in [(IF v.raised THEN {} ELSE PageNumbersOf(primary \o v.value)) -> OutcomesNow] :
      QueryGenerate(q, h, a,
                    MultiStageRetrieval(vector_index, document_store, a, po, vo, co))

\* the visual search of a run whose primary stage gave primary: vo is what
\* it does when the analysis requires visuals
QueryVisual(q, h, a, po, primary) ==
    \E vo \in (IF a.requires_visuals THEN OutcomesNow ELSE {NotCalled}) :
      QueryContext(q, h, a, po, vo, primary,
                   IF a.requires_visuals
                   THEN VisualRetrieval(vector_index, document_store, vo)
                   ELSE Return(<<>>))

\* step 2 of a run whose analysis is a: po is what the primary search does
QueryRetrieve(q, h, a) ==
    IF a.raised
    THEN Returned(q, h, NotCalled, CatchAll(AnalysisFailed(a)))
    ELSE \E po \in OutcomesNow :
           QueryVisual(q, h, a.value, po,
                       ListOf(PrimaryRetrieval(vector_index, document_store, po, 10)))

\* The dicts a run writes into (similarity_score and rank in
\* search_similar, final_score in _rerank_results) are the copies that
\* search_similar made of the stored entries.  WriteThrough is what such a
\* write leaves of the stored entry a result was made of: the entry as it
\* was; were the result the stored dict itself, it would be the result.
WriteThroughShared(entry, result) == result

WriteThrough(entry, result) == entry

RECURSIVE EntryAfter(_, _)
EntryAfter(entry, results) ==
    IF results = <<>> THEN entry
    ELSE EntryAfter(IF Head(results).id = entry.id
                    THEN WriteThrough(entry, Head(results)) ELSE entry,
                    Tail(results))

\* document_store after a run that built the given RetrievalResult (or none)
StoreAfterRun(store, rr) ==
    IF rr = None THEN store
    ELSE [i \in DOMAIN store |->
             EntryAfter(store[i],
                        rr.primary_results \o rr.visual_results \o rr.context_results)]

\* retrieve_and_generate(query, None, conversation_history): synchronous, so
\* no other coroutine runs before it returns
RetrieveAndGenerate(q, h) ==
    /\ response = None
    /\ QueryRetrieve(q, h, AnalyzeQuery(q, h))
    /\ UNCHANGED prev_analysis
    /\ document_store' = StoreAfterRun(document_store, retrieval')
    /\ UNCHANGED <<vector_index, visual_store, document_registry>>
    /\ UNCHANGED <<processing_status, uploads, next_doc>>

\* a call of the retriever's retrieve_and_generate
Query(q, h) ==
    /\ RetrieveAndGenerate(q, h)
    /\ UNCHANGED <<reply, http>>

\* the dicts query_documents returns
NoDocuments ==
    [status |-> "error",
     error |-> "No documents have been processed yet. Please upload and process a document first."]

ReplyOf(r) ==
    IF r.raised
    THEN [status |-> "error", error |-> r.value.metadata.error]
    ELSE [status |-> "success", response |-> r.value.content,
          sources |-> r.value.sources, visuals |-> r.value.visuals,
          confidence_score |-> r.value.confidence_score,
          response_type |-> r.value.response_type, metadata |-> r.value.metadata]

\* query_documents as it would be without its check of the registry
QueryDocumentsUnchecked(q, h) ==
    /\ reply = None
    /\ RetrieveAndGenerate(q, h)
    /\ reply' = ReplyOf(response')

\* query_documents(query, None, conversation_history): no await in it
QueryDocuments(q, h) ==
    /\ reply = None
    /\ IF DOMAIN document_registry = {}
       THEN /\ response = None
            /\ reply' = NoDocuments
            /\ query' = q
            /\ history' = h
            /\ UNCHANGED <<analysis, prev_analysis, retrieval, response, calls>>
            /\ UNCHANGED storeVars
       ELSE /\ RetrieveAndGenerate(q, h)
            /\ reply' = ReplyOf(response')

\* the dicts delete_document returns
DeletedReply == [status |-> "success", message |-> "Document deleted successfully"]
NotFoundReply == [status |-> "error", error |-> "Document not found"]

\* delete_document as it would be if it left the status entry in place
DeleteDocumentKeepStatus(d) ==
    /\ response = None
    /\ reply = None
    /\ IF d \in DOMAIN document_registry
       THEN /\ document_registry' = Remove(document_registry, d)
            /\ reply' = DeletedReply
       ELSE /\ reply' = NotFoundReply
            /\ UNCHANGED document_registry
    /\ UNCHANGED processing_status
    /\ UNCHANGED <<vector_index, document_store, visual_store, uploads, next_doc>>
    /\ UNCHANGED <<query, history, analysis, prev_analysis, retrieval, response, calls>>

\* delete_document(d): the registry entry and the status entry are removed
\* (and the uploaded file); the embedder and the retriever are not touched
DeleteDocument(d) ==
    /\ response = None
    /\ reply = None
    /\ IF d \in DOMAIN document_registry
       THEN /\ document_registry' = Remove(document_registry, d)
            /\ processing_status' =
                  (IF d \in DOMAIN processing_status
                   THEN Remove(processing_status, d) ELSE processing_status)
            /\ reply' = DeletedReply
       ELSE /\ reply' = NotFoundReply
            /\ UNCHANGED <<document_registry, processing_status>>
    /\ UNCHANGED <<vector_index, document_store, visual_store, uploads, next_doc>>
    /\ UNCHANGED <<query, history, analysis, prev_analysis, retrieval, response, calls>>

\* the caller has the response; the next call starts afresh
Deliver ==
    /\ response # None \/ reply # None \/ http # None
    /\ query' = NonStrQuery
    /\ history' = NoHistory
    /\ analysis' = None
    /\ retrieval' = None
    /\ response' = None
    /\ calls' = None
    /\ reply' = None
    /\ http' = None
    /\ UNCHANGED prev_analysis
    /\ UNCHANGED storeVars

Init ==
    /\ vector_index = NoIndex
    /\ document_store = EmptyMap
    /\ visual_store = {}
    /\ document_registry = EmptyMap
    /\ processing_status = EmptyMap
    /\ uploads = EmptyMap
    /\ next_doc = 0
    /\ query = NonStrQuery
    /\ history = NoHistory
    /\ analysis = None
    /\ prev_analysis = None
    /\ retrieval = None
    /\ response = None
    /\ calls = None
    /\ reply = None
    /\ http = None

Next ==
    \/ \E kind \in DocKinds : ProcessBegin(kind)
    \/ \E d \in DOMAIN uploads : ProcessRun(d)
    \/ \E c \in PipelineCalls : Query(c[1], c[2])
    \/ Deliver

Spec == Init /\ [][Next]_vars

-----------------------------------------------------------------------------
(* The orchestrator's methods: documents are processed, queried through
   query_documents, and deleted *)

OrchKinds == {"report", "memo", "corrupt"}

OrchCalls == {<<StrQuery("Show chart"), NoHistory>>, <<StrQuery("what report"), NoHistory>>}

\* a call of query_documents made outside the server
OrchQuery(q, h) ==
    /\ QueryDocuments(q, h)
    /\ UNCHANGED http

\* a call of delete_document made outside the server
OrchDelete(d) ==
    /\ DeleteDocument(d)
    /\ UNCHANGED http

NextOrch ==
    \/ \E kind \in OrchKinds : ProcessBegin(kind)
    \/ \E d \in DOMAIN uploads : ProcessRun(d)
    \/ \E c \in OrchCalls : OrchQuery(c[1], c[2])
    \/ \E d \in 1..MaxDocs : OrchDelete(d)
    \/ Deliver

SpecOrch == Init /\ [][NextOrch]_vars

-----------------------------------------------------------------------------
(* The server's handlers: POST /api/documents/upload and POST /api/query,
   with the orchestrator constructed at startup *)

\* the largest content the upload handler accepts, in bytes
MaxUpload == 50 * 1024 * 1024

HTTPException(status_code, detail) == [status_code |-> status_code, detail |-> detail]

\* the files uploaded: whether the filename ends with '.pdf', the length of
\* the content, and what the content is
UploadKinds == {"report", "corrupt"}
UploadFiles == [pdf : BOOLEAN, size : {1, MaxUpload, MaxUpload + 1}, kind : UploadKinds]

\* the bodies posted to /api/query: with or without a 'query' key
QueryBodies ==
    {[given |-> FALSE, query |-> StrQuery("")], [given |-> TRUE, query |-> StrQuery("")],
     [given |-> TRUE, query |-> StrQuery("Show chart")]}

UploadRequest(file) == [op |-> "upload", file |-> file]
QueryRequest(body) == [op |-> "query", body |-> body]

\* what the client receives: each handler's body is one try block whose
\* 'except Exception' raises HTTPException(500) with the text of whatever
\* was raised inside, an HTTPException included
Sent(request, prefix, outcome) ==
    IF outcome.raised
    THEN [request |-> request, status_code |-> 500,
          detail |-> [prefix |-> prefix, cause |-> outcome.value]]
    ELSE [request |-> request, status_code |-> 200, detail |-> outcome.value]

\* the upload handler's checks of the filename and of the content's length
UploadChecks(file) ==
    IF ~file.pdf
    THEN Raise(HTTPException(400, "Only PDF files are supported"))
    ELSE IF file.size > MaxUpload
         THEN Raise(HTTPException(400, "File size must be less than 50MB"))
         ELSE Return("accepted")

\* upload_document up to process_document's await of the file write
UploadDocument(file) ==
    /\ http = None
    /\ IF UploadChecks(file).raised
       THEN /\ http' = Sent(UploadRequest(file), "Upload error", UploadChecks(file))
            /\ UNCHANGED storeVars
            /\ UNCHANGED <<query, history, analysis, prev_analysis, retrieval, response, calls, reply>>
       ELSE ProcessBegin(file.kind)

\* upload_document from there on: process_document runs to its end, an
\* 'error' result is raised as HTTPException(500), and otherwise the
\* document's metadata is inserted into the database, which can raise
UploadResult(status, insert) ==
    IF status.status = "error"
    THEN Raise(HTTPException(500, "processing error"))
    ELSE IF insert = "raise" THEN Raise("insert_one failed") ELSE Return("success")

UploadFinish(d) ==
    /\ http = None
    /\ ProcessDocument(d)
    /\ UNCHANGED <<query, history, analysis, prev_analysis, retrieval, response, calls, reply>>
    /\ \E insert \in {"ok", "raise"} :
          http' = Sent(UploadRequest([pdf |-> TRUE, size |-> 1, kind |-> uploads[d]]),
                       "Upload error", UploadResult(processing_status'[d], insert))

\* query_data.get("query", "")
QueryOf(body) == IF body.given THEN body.query ELSE StrQuery("")

\* the query handler's result, given the dict the orchestrator returned
QueryResult(result) ==
    IF result.status = "error"
    THEN Raise(HTTPException(500, result.error))
    ELSE Return("success")

\* the query handler: 'if not query' raises HTTPException(400) before the
\* orchestrator is called
PostQuery(body) ==
    /\ http = None
    /\ IF QueryOf(body).text = ""
       THEN /\ response = None
            /\ reply = None
            /\ http' = Sent(QueryRequest(body), "Query error",
                            Raise(HTTPException(400, "Query is required")))
            /\ query' = QueryOf(body)
            /\ history' = NoHistory
            /\ UNCHANGED <<analysis, prev_analysis, retrieval, response, calls, reply>>
            /\ UNCHANGED storeVars
       ELSE /\ QueryDocuments(QueryOf(body), NoHistory)
            /\ http' = Sent(QueryRequest(body), "Query error", QueryResult(reply'))

NextServer ==
    \/ \E file \in UploadFiles : UploadDocument(file)
    \/ \E d \in DOMAIN uploads : UploadFinish(d)
    \/ \E body \in QueryBodies : PostQuery(body)
    \/ Deliver

SpecServer == Init /\ [][NextServer]_vars

-----------------------------------------------------------------------------
(* Retrieval over longer documents: the manuals are ingested and queried *)

LongCalls ==
    {<<StrQuery("Show chart"), NoHistory>>, <<StrQuery("what report"), NoHistory>>}

NextLong ==
    \/ ProcessBegin("manual")
    \/ \E d \in DOMAIN uploads : ProcessRun(d)
    \/ \E c \in LongCalls : Query(c[1], c[2])
    \/ Deliver

SpecLong == Init /\ [][NextLong]_vars

-----------------------------------------------------------------------------
(* Calls of _select_template alone, over every intent and both values of
   requires_visuals.  The analysis of the initial state is a QueryAnalysis as
   a caller of select_response_template may hand it over: its
   suggested_template is a name of the table or another string. *)

ComplexityLevels == {0, DefaultComplexity, 100}

GivenNames == TemplateNames \cup {"custom_response"}

GivenAnalysis(intent, complexity_score, requires_visuals, name) ==
    [DefaultAnalysis EXCEPT !.intent = intent,
                            !.complexity_score = complexity_score,
                            !.requires_visuals = requires_visuals,
                            !.suggested_template = name]

\* suggested_template = self._select_template(intent, complexity_score, requires_visuals)
SelectCall ==
    /\ prev_analysis = None
    /\ analysis # None
    /\ prev_analysis' = analysis
    /\ analysis' =
          Return([analysis.value EXCEPT !.suggested_template =
                     SelectTemplate(analysis.value.intent,
                                    analysis.value.complexity_score,
                                    analysis.value.requires_visuals)])
    /\ UNCHANGED <<query, history, retrieval, response, calls, reply, http>>
    /\ UNCHANGED storeVars

InitSelect ==
    /\ vector_index = NoIndex
    /\ document_store = EmptyMap
    /\ visual_store = {}
    /\ document_registry = EmptyMap
    /\ processing_status = EmptyMap
    /\ uploads = EmptyMap
    /\ next_doc = 0
    /\ query = NonStrQuery
    /\ history = NoHistory
    /\ \E intent \in Intents, c \in ComplexityLevels, rv \in BOOLEAN, n \in GivenNames :
          analysis = Return(GivenAnalysis(intent, c, rv, n))
    /\ prev_analysis = None
    /\ retrieval = None
    /\ response = None
    /\ calls = None
    /\ reply = None
    /\ http = None

NextSelect == SelectCall

SpecSelect == InitSelect /\ [][NextSelect]_vars

-----------------------------------------------------------------------------
(* Calls of analyze_query alone, over every query of up to MaxWords words *)

AnalyzeCall ==
    /\ prev_analysis = None
    /\ analysis' = AnalyzeQuery(query, history)
    /\ prev_analysis' = analysis
    /\ UNCHANGED <<query, history, retrieval, response, calls, reply, http>>
    /\ UNCHANGED storeVars

InitAnalyze ==
    /\ vector_index = NoIndex
    /\ document_store = EmptyMap
    /\ visual_store = {}
    /\ document_registry = EmptyMap
    /\ processing_status = EmptyMap
    /\ uploads = EmptyMap
    /\ next_doc = 0
    /\ query \in Queries
    /\ history \in Histories
    /\ analysis = None
    /\ prev_analysis = None
    /\ retrieval = None
    /\ response = None
    /\ calls = None
    /\ reply = None
    /\ http = None

NextAnalyze == AnalyzeCall

SpecAnalyze == InitAnalyze /\ [][NextAnalyze]_vars

-----------------------------------------------------------------------------
(* Properties of retrieve_and_generate, checked under Spec *)

\* a run is over: retrieve_and_generate has handed its outcome to the caller
Answered == response # None

\* some search call of the given stages raised in the run
SearchRaised(stages) ==
    \E i \in 1..Len(calls.searches) :
        calls.searches[i].raised /\ calls.searches[i].stage \in stages

\* C1: retrieve_and_generate never raises to its caller: whatever the
\* searches and the generation call do, the outcome is a returned
\* GeneratedResponse, and a run that failed outside the stage handlers (no
\* RetrievalResult was produced) returns the response of type "error" with
\* the processing apology, no sources, no visuals and confidence 0.
C1_NeverRaises ==
    Answered =>
        /\ ~response.raised
        /\ response.value.response_type
               \in {"error"} \cup {Templates[n].response_format : n \in TemplateNames}
        /\ retrieval = None =>
               /\ response.value.response_type = "error"
               /\ response.value.content = ApologyProcessing
               /\ response.value.sources = <<>>
               /\ response.value.visuals = <<>>
               /\ response.value.confidence_score = 0

\* a run in which a search raised past the stage handlers and the caller
\* still got the error-typed response
C1_Witness ==
    /\ Answered
    /\ retrieval = None
    /\ SearchRaised({"visual", "context"})
    /\ ~response.raised
    /\ response.value.response_type = "error"

\* C2: a run that reaches synthesis invokes generate_content exactly once,
\* and when that call raises the response is the error-typed one of
\* _generate_structured_response: type "error", confidence 0, the generation
\* apology, no sources, no visuals, the cause in metadata.
C2_GenerationOnceAndCaught ==
    (Answered /\ retrieval # None) =>
        /\ Len(calls.prompts) = 1
        /\ calls.generation \in GenerationOutcomes
        /\ calls.generation = "raise" =>
               /\ ~response.raised
               /\ response.value = ErrorResponse(ApologyGeneration, "generation failed")

\* a run whose generation call raised
C2_Witness ==
    /\ Answered
    /\ retrieval # None
    /\ calls.generation = "raise"
    /\ Len(calls.prompts) = 1
    /\ response.value.response_type = "error"
    /\ response.value.metadata.error = "generation failed"

\* C3, as the specification states it: when the visual search or a page
\* search of the context expansion raises, retrieval still produces its
\* result, generate_content is still invoked, and the response is not
\* error-typed unless generation itself raised.
C3_StagesIsolated ==
    (Answered /\ SearchRaised({"visual", "context"})) =>
        /\ retrieval # None
        /\ Len(calls.prompts) = 1
        /\ calls.generation # "raise" => response.value.response_type # "error"

\* the visual search raised and the whole run ended in the error response,
\* generate_content never invoked
C3_Witness ==
    /\ Answered
    /\ SearchRaised({"visual"})
    /\ retrieval = None
    /\ calls.prompts = <<>>
    /\ response.value.response_type = "error"

\* C4: when the primary search raises, primary_results is empty and the run
\* goes on: the visual search is made if the analysis requires visuals, the
\* re-ranked list is made of the visual and context results, and the run
\* produces no RetrievalResult only if a later search raised.
C4_PrimaryFailureContained ==
    (Answered /\ calls.searches # <<>> /\ calls.searches[1].raised) =>
        /\ calls.searches[1].stage = "primary"
        /\ analysis.value.requires_visuals =>
               Len(calls.searches) >= 2 /\ calls.searches[2].stage = "visual"
        /\ retrieval = None => SearchRaised({"visual", "context"})
        /\ retrieval # None =>
               /\ retrieval.primary_results = <<>>
               /\ retrieval.retrieval_metadata.primary_count = 0
               /\ Len(retrieval.reranked_results)
                      = Len(retrieval.visual_results) + Len(retrieval.context_results)
               /\ Range(retrieval.reranked_results)
                      = Range(retrieval.visual_results \o retrieval.context_results)

\* the primary search raised, the visual search returned synthetic documents
\* and they were re-ranked
C4_Witness ==
    /\ Answered
    /\ calls.searches # <<>>
    /\ calls.searches[1].raised
    /\ retrieval # None
    /\ retrieval.primary_results = <<>>
    /\ retrieval.visual_results # <<>>
    /\ retrieval.reranked_results # <<>>

\* every search of the run returned, and every stage list is empty
NoEvidence ==
    /\ retrieval # None
    /\ ~SearchRaised({"primary", "visual", "context"})
    /\ retrieval.primary_results = <<>>
    /\ retrieval.visual_results = <<>>
    /\ retrieval.context_results = <<>>

\* C5: when every search returns an empty list and generation returns
\* non-empty text, the response has no sources, no visuals, and the
\* template's response type, which is never "error".
C5_NoEvidenceIsNoError ==
    (Answered /\ NoEvidence /\ calls.generation \in {"short", "long"}) =>
        /\ response.value.sources = <<>>
        /\ response.value.visuals = <<>>
        /\ response.value.response_type # "error"
        /\ response.value.response_type
               = SelectResponseTemplate(analysis.value).response_format

\* a visual query against an index that holds no vector: both searches
\* return nothing and the text comes back
C5_Witness ==
    /\ Answered
    /\ NoEvidence
    /\ Len(calls.searches) = 2
    /\ calls.generation = "long"
    /\ response.value.content = GeneratedText("long")
    /\ response.value.sources = <<>>
    /\ response.value.response_type = "visual_analysis"

C7_EmptyTextIsError ==
    (Answered /\ calls.generation = "empty") =>
        /\ response.value.response_type = "error"
        /\ response.value.confidence_score = 0
        /\ response.value.content \in {ApologyGeneration, ApologyNoText}

\* generate_content returned empty text and the response carries the
\* no-text apology under the template's type with a positive confidence
C7_Witness ==
    /\ Answered
    /\ calls.generation = "empty"
    /\ response.value.content = ApologyNoText
    /\ response.value.response_type = "structured"
    /\ response.value.confidence_score >= 50 * ConfUnit

-----------------------------------------------------------------------------
(* Properties of analyze_query, checked under SpecAnalyze *)

\* analyze_query has been called
Analyzed == analysis # None

\* the words re.findall finds in the lower-cased query
WordsOfQuery == Range(FindWords(Lower(query.text), 1, ""))

\* C8: analyze_query never raises: when a step of its body raises (the query
\* is no string, the history has no len()), it returns the default analysis,
\* and every call returns a QueryAnalysis whose intent is one of the seven.
C8_AnalyzeNeverRaises ==
    Analyzed =>
        /\ ~analysis.raised
        /\ analysis.value.intent \in Intents
        /\ Cardinality(Intents) = 7
        /\ AnalysisBody(query, history).raised =>
               /\ analysis.value = DefaultAnalysis
               /\ analysis.value.intent = "textual"
               /\ analysis.value.confidence = 50
               /\ analysis.value.keywords = <<>>
               /\ analysis.value.visual_keywords = <<>>
               /\ ~analysis.value.requires_visuals
               /\ analysis.value.suggested_template = "basic_response"

\* a visual query with a history that has no len(): the body raised and the
\* default analysis came back
C8_Witness ==
    /\ Analyzed
    /\ query = StrQuery("Show chart")
    /\ history = UnsizedHistory
    /\ AnalysisBody(query, history).raised
    /\ analysis = Return(DefaultAnalysis)

C10_VisualPrecedence ==
    (Analyzed /\ query.str /\ history.kind # "unsized"
       /\ WordsOfQuery \cap VisualVocabulary # {}) =>
        analysis.value.intent = "visual"

\* a query with a comparative word and a visual word
C10_Witness ==
    /\ Analyzed
    /\ query = StrQuery("compare trend")
    /\ IsComparativeQuery(query.text)
    /\ WordsOfQuery \cap VisualVocabulary = {"trend"}
    /\ analysis.value.intent = "visual"

\* has the query a visual term: a word of the visual vocabulary, or one of
\* the literals _detect_intent looks for
HasVisualTerm ==
    \/ WordsOfQuery \cap VisualVocabulary # {}
    \/ ContainsAny(Lower(query.text), VisualLiterals)

\* C11: for a query with comparison vocabulary and no visual term (such as
\* "Compare Q1 and Q2 performance"), analyze_query returns the intent
\* comparative with the template comparative_response, and
\* select_response_template returns the comparative template.
C11_ComparativeTemplate ==
    (Analyzed /\ query.str /\ history.kind # "unsized"
       /\ IsComparativeQuery(query.text) /\ ~HasVisualTerm) =>
        /\ analysis.value.intent = "comparative"
        /\ analysis.value.suggested_template = "comparative_response"
        /\ SelectResponseTemplate(analysis.value) = Templates["comparative_response"]

\* the scenario query is classified comparative, and for that very reason
\* requires visuals and is given the visual template
C11_Witness ==
    /\ Analyzed
    /\ query = StrQuery("Compare Q1 and Q2 performance")
    /\ ~HasVisualTerm
    /\ analysis.value.intent = "comparative"
    /\ analysis.value.requires_visuals
    /\ analysis.value.suggested_template = "visual_response"
    /\ SelectResponseTemplate(analysis.value) = Templates["visual_response"]

\* C12: every query classified visual (such as "Show me the chart for Q1
\* revenue") has an analysis with requires_visuals true and the template
\* visual_response, and select_response_template returns the visual template.
C12_VisualTemplate ==
    /\ (Analyzed /\ query = StrQuery("Show me the chart for Q1 revenue")
           /\ history.kind # "unsized") => analysis.value.intent = "visual"
    /\ (Analyzed /\ analysis.value.intent = "visual") =>
           /\ analysis.value.requires_visuals
           /\ analysis.value.suggested_template = "visual_response"
           /\ SelectResponseTemplate(analysis.value) = Templates["visual_response"]
           /\ SelectResponseTemplate(analysis.value).include_visuals

\* the scenario query, classified visual by its words "show" and "chart"
C12_Witness ==
    /\ Analyzed
    /\ query = StrQuery("Show me the chart for Q1 revenue")
    /\ WordsOfQuery \cap VisualVocabulary = {"show", "chart"}
    /\ analysis.value.intent = "visual"
    /\ analysis.value.requires_visuals
    /\ analysis.value.suggested_template = "visual_response"

\* C13: for every query (the empty one included) and every retrieval
\* outcome, the confidence and the complexity_score of the QueryAnalysis and
\* the confidence_score of the GeneratedResponse lie in [0, 1], on the normal
\* paths and on the error paths.
C13_ScoresInUnitInterval ==
    /\ Analyzed =>
          /\ analysis.value.confidence \in 0..100
          /\ analysis.value.complexity_score \in 0..100
    /\ Answered => response.value.confidence_score \in 0..ConfOne

\* an answer whose confidence the final min() brought down to 1.0, computed
\* from candidates of which one has a negative similarity
C13_Witness ==
    /\ Answered /\ Analyzed /\ retrieval # None
    /\ response.value.response_type # "error"
    /\ response.value.confidence_score = ConfOne
    /\ \E i \in 1..Len(retrieval.primary_results) :
          retrieval.primary_results[i].similarity_score < 0

\* a RetrievalResult was built in the run
Retrieved == retrieval # None

\* the number of candidates the three stages handed to re-ranking
StageTotal ==
    Len(retrieval.primary_results) + Len(retrieval.visual_results)
      + Len(retrieval.context_results)

\* C14: after _multi_stage_retrieval, whatever the stages returned,
\* reranked_results has at most 10 entries and is sorted by final_score,
\* highest first (non-increasing).
C14_RerankedCappedAndSorted ==
    Retrieved =>
        /\ Len(retrieval.reranked_results) <= 10
        /\ \A i \in 1..(Len(retrieval.reranked_results) - 1) :
              retrieval.reranked_results[i].final_score
                  >= retrieval.reranked_results[i + 1].final_score

\* the stages returned more than 10 candidates, of different scores, in an
\* order that is not the sorted one: 10 are kept
C14_Witness ==
    /\ Retrieved
    /\ StageTotal > 10
    /\ Len(retrieval.reranked_results) = 10
    /\ retrieval.reranked_results[1].final_score > retrieval.reranked_results[10].final_score
    /\ retrieval.primary_results[1].final_score < retrieval.context_results[1].final_score

\* the ids of a list of candidates
IdsOf(results) == {results[i].id : i \in 1..Len(results)}

\* C15: fusion deduplicates by candidate id: a candidate returned by more
\* than one stage appears exactly once in reranked_results, so no two
\* entries of reranked_results share an id.
C15_RerankedIdsDistinct ==
    Retrieved =>
        \A i, j \in 1..Len(retrieval.reranked_results) :
            retrieval.reranked_results[i].id = retrieval.reranked_results[j].id => i = j

\* the synthetic document of a report is returned by the primary and by the
\* visual search, and reranked_results holds it twice
C15_Witness ==
    /\ Retrieved
    /\ query = StrQuery("Show chart")
    /\ retrieval.context_results = <<>>
    /\ \E k \in 1..Len(retrieval.visual_results) :
          /\ retrieval.visual_results[k].id \in IdsOf(retrieval.primary_results)
          /\ Cardinality({i \in 1..Len(retrieval.reranked_results) :
                 retrieval.reranked_results[i].id = retrieval.visual_results[k].id}) = 2

\* a candidate as search_similar returned it, before final_score was written
AsReturned(x) ==
    [id |-> x.id, content |-> x.content, content_type |-> x.content_type,
     page |-> x.page, visual_link |-> x.visual_link,
     similarity_score |-> x.similarity_score, rank |-> x.rank]

\* C16: no candidate of context_results has an id that is already in
\* primary_results or visual_results, whatever the page searches return
\* (the same stored item with another similarity_score or rank included).
C16_ContextIdsNew ==
    Retrieved =>
        IdsOf(retrieval.context_results)
            \cap (IdsOf(retrieval.primary_results) \cup IdsOf(retrieval.visual_results)) = {}

\* a page search returned an item of primary_results at another rank and
\* with another score: equal to no dict of the two lists, it was added
C16_Witness ==
    /\ Retrieved
    /\ \E i \in 1..Len(retrieval.context_results) :
        \E j \in 1..Len(retrieval.primary_results) :
          /\ retrieval.context_results[i].id = retrieval.primary_results[j].id
          /\ retrieval.context_results[i].rank # retrieval.primary_results[j].rank
          /\ retrieval.context_results[i].similarity_score
                # retrieval.primary_results[j].similarity_score
          /\ \A k \in 1..Len(retrieval.primary_results) :
                AsReturned(retrieval.context_results[i])
                    # AsReturned(retrieval.primary_results[k])

\* C17: whenever primary_results, visual_results or context_results is not
\* empty, reranked_results is not empty.
C17_RerankedNonEmpty ==
    (Retrieved /\ StageTotal > 0) => retrieval.reranked_results # <<>>

\* the primary search raised and the visual search returned candidates:
\* visual_results alone is not empty, and its candidates are kept
C17_Witness ==
    /\ Retrieved
    /\ SearchRaised({"primary"})
    /\ retrieval.primary_results = <<>>
    /\ retrieval.context_results = <<>>
    /\ retrieval.visual_results # <<>>
    /\ Len(retrieval.reranked_results) = Len(retrieval.visual_results)

\* the page (0-based) a candidate was taken from, as its id records it:
\* "<doc>_chunk_<page>_<i>" or "synthetic_<doc>_visual_<page>_<i>"
PageOfId(id) == IF Len(id) = 4 THEN id[3] ELSE id[4]

\* the response is a returned GeneratedResponse that is not the error one
NonError ==
    /\ Answered /\ Retrieved
    /\ ~response.raised
    /\ response.value.response_type # "error"

\* C18: in every non-error GeneratedResponse, sources has min(3, |reranked|)
\* entries, the first entries of reranked_results in order, each with the
\* 1-based page number of its candidate; visuals has at most 3 entries, each
\* derived from a candidate of visual_results.
C18_SourcesAndVisuals ==
    NonError =>
        /\ Len(response.value.sources) = Min(3, Len(retrieval.reranked_results))
        /\ \A i \in 1..Len(response.value.sources) :
              /\ response.value.sources[i].content
                    = Take(retrieval.reranked_results[i].content, 200) \o "..."
              /\ response.value.sources[i].type = retrieval.reranked_results[i].content_type
              /\ response.value.sources[i].relevance_score
                    = retrieval.reranked_results[i].final_score
              /\ response.value.sources[i].page
                    = PageOfId(retrieval.reranked_results[i].id) + 1
        /\ Len(response.value.visuals) <= 3
        /\ \A i \in 1..Len(response.value.visuals) :
              \E k \in 1..Len(retrieval.visual_results) :
                  /\ response.value.visuals[i].id = retrieval.visual_results[k].visual_link
                  /\ response.value.visuals[i].description = retrieval.visual_results[k].content

\* the second best candidate is the text chunk of a manual's second page,
\* and the source made of it gives page 1
C18_Witness ==
    /\ NonError
    /\ Len(response.value.sources) = 3
    /\ retrieval.reranked_results[2].content_type = "text"
    /\ PageOfId(retrieval.reranked_results[2].id) = 1
    /\ response.value.sources[2].page = 1

\* a step made the whole of a batch visible: its vectors are added to the
\* index and its metadata entries are in document_store
BatchPublished(d, batch) ==
    /\ d \notin DOMAIN uploads'
    /\ IndexTotal(vector_index') = IndexTotal(vector_index) + Len(batch)
    /\ \A i \in 1..Len(batch) :
          (i - 1) \in DOMAIN document_store' /\ document_store'[i - 1] = batch[i]
    /\ \A i \in DOMAIN document_store' :
          i >= Len(batch) => (i \in DOMAIN document_store /\ document_store'[i] = document_store[i])

\* C19: under every interleaving of process_document and query_documents,
\* a search never observes a partially written batch: the index and
\* document_store change only in a step that adds all the vectors and all
\* the metadata entries of one batch, so the state a query runs in has, of
\* each batch, none of them yet or all of them written.
C19_BatchAtomic ==
    [][(vector_index' # vector_index \/ document_store' # document_store) =>
          \E d \in DOMAIN uploads : BatchPublished(d, EmbedDocuments(uploads[d], d))]_vars

\* a query ran while one document was stored and another was still being
\* saved: its search returned the whole batch of the first
C19_Witness ==
    /\ Answered /\ Retrieved
    /\ DOMAIN uploads # {}
    /\ \E d \in DOMAIN document_registry :
          /\ document_registry[d].total_vectors = 2
          /\ IndexTotal(vector_index) = 2
          /\ IdsOf(retrieval.primary_results) = {ChunkId(d, 0, 0), SyntheticId(d, 0, 0)}

\* C20: query processing holds no state across queries: a run of
\* retrieve_and_generate leaves the vector index, the embedder's
\* document_store, the visual_store and the document registry as they were
\* (the final_score of re-ranking is written into copies, not into the
\* stored entries; the template table is a constant), so that a query's
\* result does not depend on the queries answered before it.
C20_QueryLeavesStores ==
    [][(response = None /\ response' # None) =>
          /\ document_store' = document_store
          /\ vector_index' = vector_index
          /\ visual_store' = visual_store
          /\ document_registry' = document_registry]_vars

\* a run re-ranked candidates made of stored entries and wrote a final_score
\* into each, and no stored entry has one
C20_Witness ==
    /\ Answered /\ Retrieved
    /\ retrieval.reranked_results # <<>>
    /\ \A i \in 1..Len(retrieval.reranked_results) :
          \E k \in DOMAIN document_store :
              /\ document_store[k].id = retrieval.reranked_results[i].id
              /\ "final_score" \in DOMAIN retrieval.reranked_results[i]
              /\ "final_score" \notin DOMAIN document_store[k]

\* the checks of intent classification, on the query of the call: its
\* lower-cased text and the words of it that are kept as keywords
KeptWords == {w \in WordsOfQuery : w \notin StopWords /\ Len(w) > 2}

IntentChecks ==
    [visual |-> KeptWords \cap VisualVocabulary # {}
                  \/ \E w \in VisualLiterals : Contains(Lower(query.text), w),
     comparative |-> \E w \in ComparativeWords : Contains(Lower(query.text), w),
     analytical |-> KeptWords \cap AnalyticalVocabulary # {},
     summary |-> \E w \in SummaryWords : Contains(Lower(query.text), w),
     factual |-> \E w \in FactualWords : Contains(Lower(query.text), w),
     textual |-> TRUE]

IntentOrder == <<"visual", "comparative", "analytical", "summary", "factual", "textual">>

\* how many of the checks before the default are true
MatchCount(checks) == Cardinality({i \in 1..5 : checks[IntentOrder[i]]})

\* C21: intent classification is first-match in the order visual,
\* comparative, analytical, summary, factual, with textual as the default:
\* the intent returned for a query is the first whose check is true (so
\* "Summarize the key findings" is a summary query).
C21_FirstMatch ==
    /\ (Analyzed /\ query.str /\ history.kind # "unsized") =>
          \E i \in 1..6 :
              /\ analysis.value.intent = IntentOrder[i]
              /\ IntentChecks[IntentOrder[i]]
              /\ \A j \in 1..(i - 1) : ~IntentChecks[IntentOrder[j]]
    /\ (Analyzed /\ query = StrQuery("Summarize the key findings")
           /\ history.kind # "unsized") =>
          /\ analysis.value.intent = "summary"
          /\ analysis.value.suggested_template = "summary_response"

\* a query whose analytical and summary checks are both true is classified
\* analytical
C21_Witness ==
    /\ Analyzed
    /\ query = StrQuery("analyze summary")
    /\ history.kind # "unsized"
    /\ MatchCount(IntentChecks) = 2
    /\ IntentChecks.analytical /\ IntentChecks.summary
    /\ analysis.value.intent = "analytical"

\* the template id the stated precedence gives
StatedTemplate(intent, requires_visuals) ==
    CASE requires_visuals \/ intent = "visual" -> "visual_response"
      [] ~requires_visuals /\ intent = "analytical" -> "analytical_response"
      [] ~requires_visuals /\ intent = "comparative" -> "comparative_response"
      [] ~requires_visuals /\ intent = "summary" -> "summary_response"
      [] OTHER -> "basic_response"

\* _select_template has been applied to the analysis of the initial state
Selected == prev_analysis # None /\ analysis # None

\* C22: template selection is total and follows the stated precedence: for
\* each of the 7 intents and both values of requires_visuals it returns one
\* of the 5 ids (visual if requires_visuals or the intent is visual, else
\* analytical, comparative or summary by the intent, else basic); and
\* select_response_template returns a template of the table for every
\* analysis, the basic one for a name that is not in the table.
C22_SelectionTotal ==
    /\ Selected =>
          /\ analysis.value.suggested_template \in TemplateNames
          /\ analysis.value.suggested_template
                = StatedTemplate(prev_analysis.value.intent,
                                 prev_analysis.value.requires_visuals)
    /\ (analysis # None /\ ~analysis.raised) =>
          /\ \E n \in TemplateNames : SelectResponseTemplate(analysis.value) = Templates[n]
          /\ analysis.value.suggested_template \in TemplateNames =>
                SelectResponseTemplate(analysis.value).name
                    = analysis.value.suggested_template
          /\ analysis.value.suggested_template \notin TemplateNames =>
                SelectResponseTemplate(analysis.value) = Templates["basic_response"]

\* a comparative analysis that does not require visuals was given the
\* comparative template, whatever name it carried before
C22_Witness ==
    /\ Selected
    /\ prev_analysis.value.intent = "comparative"
    /\ ~prev_analysis.value.requires_visuals
    /\ prev_analysis.value.suggested_template = "custom_response"
    /\ SelectResponseTemplate(prev_analysis.value) = Templates["basic_response"]
    /\ analysis.value.suggested_template = "comparative_response"
    /\ SelectResponseTemplate(analysis.value) = Templates["comparative_response"]

\* the candidates re-ranking scored: the three stage lists
ScoredCandidates ==
    Range(retrieval.primary_results) \cup Range(retrieval.visual_results)
        \cup Range(retrieval.context_results)

\* the boosts of the stated formula for a candidate, in hundredths;
\* content_lower is its content in lower case
VisualBoost(x) ==
    IF analysis.value.requires_visuals /\ x.content_type = "synthetic_visual" THEN 20 ELSE 0

IntentBoost(content_lower) ==
    IF Contains(content_lower, analysis.value.intent) THEN 10 ELSE 0

KeywordBoost(content_lower) ==
    5 * Cardinality({i \in 1..Len(analysis.value.visual_keywords) :
                       Contains(content_lower, analysis.value.visual_keywords[i])})

Boosts(x, content_lower) ==
    VisualBoost(x) + IntentBoost(content_lower) + KeywordBoost(content_lower)

\* C23: for every candidate with similarity_score in [0, 1], final_score is
\* min(1.0, similarity_score + 0.2 if visuals are required and the candidate
\* is a synthetic visual + 0.1 if the intent label is in the content + 0.05
\* for each visual keyword found in the content), and so lies in [0, 1].
C23_FinalScore ==
    (Retrieved /\ Analyzed) =>
        \A x \in ScoredCandidates :
            x.similarity_score \in 0..100 =>
                /\ x.final_score
                      = Min(100, x.similarity_score + Boosts(x, Lower(x.content)))
                /\ x.final_score \in 0..100

\* a candidate that has all three boosts, cut to 1.0, and another that has
\* none and keeps its similarity
C23_Witness ==
    /\ Retrieved /\ Analyzed
    /\ \E x \in ScoredCandidates :
          /\ x.similarity_score \in 0..100
          /\ Boosts(x, Lower(x.content)) = 35
          /\ x.similarity_score + 35 > 100
          /\ x.final_score = 100
    /\ \E x \in ScoredCandidates :
          /\ x.similarity_score \in 1..100
          /\ Boosts(x, Lower(x.content)) = 0
          /\ x.final_score = x.similarity_score

\* the searches of the visual stage in the run
VisualSearches == {i \in 1..Len(calls.searches) : calls.searches[i].stage = "visual"}

\* C24: the visual stage issues its search only when the analysis requires
\* visuals, and visual_results is empty otherwise; when it runs,
\* visual_results holds only candidates of type synthetic_visual, at most 5,
\* in the order the search returned them.
C24_VisualStage ==
    (Answered /\ Analyzed) =>
        /\ VisualSearches # {} => analysis.value.requires_visuals
        /\ Cardinality(VisualSearches) <= 1
        /\ Retrieved =>
              /\ ~analysis.value.requires_visuals => retrieval.visual_results = <<>>
              /\ analysis.value.requires_visuals => Cardinality(VisualSearches) = 1
              /\ Len(retrieval.visual_results) <= 5
              /\ \A i \in 1..Len(retrieval.visual_results) :
                    /\ retrieval.visual_results[i].content_type = "synthetic_visual"
                    /\ retrieval.visual_results[i].rank \in 1..5
                    /\ \A j \in 1..(i - 1) :
                          retrieval.visual_results[j].rank < retrieval.visual_results[i].rank

\* the visual search of a run on a manual ranked the three text chunks
\* first: of its 5 results the two synthetic documents are kept, in order
C24_Witness ==
    /\ Answered /\ Analyzed /\ Retrieved
    /\ analysis.value.requires_visuals
    /\ Cardinality(VisualSearches) = 1
    /\ Len(retrieval.visual_results) = 2
    /\ retrieval.visual_results[1].rank = 4
    /\ retrieval.visual_results[2].rank = 5

\* C25: after any sequence of store_vectors calls, the metadata that
\* search_similar attaches to an index position is that of the vector
\* stored at that position, and every stored vector still has its entry: a
\* step never overwrites or removes an entry of document_store, and every
\* position of the index has one.
C25_EntriesAligned ==
    [][/\ \A i \in DOMAIN document_store :
             i \in DOMAIN document_store' /\ document_store'[i] = document_store[i]
       /\ DOMAIN document_store' = 0..(IndexTotal(vector_index') - 1)]_vars

\* two reports were stored, the second after the first: the index has four
\* vectors, document_store has two entries, and positions 0 and 1, where the
\* vectors of the first report are, carry the entries of the second
C25_Witness ==
    /\ DOMAIN document_registry = {1, 2}
    /\ document_registry[1].total_vectors = 2
    /\ document_registry[2].total_vectors = 2
    /\ IndexTotal(vector_index) = 4
    /\ DOMAIN document_store = {0, 1}
    /\ document_store[0].id = ChunkId(2, 0, 0)
    /\ document_store[1].id = SyntheticId(2, 0, 0)

\* the document a candidate's id or a visual's id names
DocOfId(id) == IF Len(id) = 4 THEN id[1] ELSE id[2]

\* the documents that were deleted: their ids were handed out and they have
\* no status entry any more
DeletedDocs == {d \in 1..next_doc : d \notin DOMAIN processing_status}

\* query_documents returned the answer of a run
QueryAnswered == reply # None /\ "response" \in DOMAIN reply

\* C26: after delete_document(d) has returned success, no query returns
\* candidates, sources or visuals that come from document d.
C26_DeletedNotReturned ==
    (QueryAnswered /\ Retrieved) =>
        /\ \A x \in ScoredCandidates \cup Range(retrieval.reranked_results) :
              DocOfId(x.id) \notin DeletedDocs
        /\ \A i \in 1..Len(reply.visuals) :
              DocOfId(reply.visuals[i].id) \notin DeletedDocs

\* document 2 was deleted while document 1 is still registered, and the
\* answer to a later query has a source and a visual of document 2
C26_Witness ==
    /\ QueryAnswered /\ Retrieved
    /\ DeletedDocs = {2}
    /\ DOMAIN document_registry = {1}
    /\ reply.sources # <<>>
    /\ DocOfId(retrieval.reranked_results[1].id) = 2
    /\ \E i \in 1..Len(reply.visuals) : DocOfId(reply.visuals[i].id) = 2

\* the status entry of d says completed, with progress 100
Completed(status, d) ==
    d \in DOMAIN status /\ status[d].status = "completed" /\ status[d].progress = 100

\* C27: in every state another coroutine or request can observe, a document
\* id is in document_registry if and only if its processing_status entry is
\* completed with progress 100 (so an id that ended in error is not in the
\* registry); and as long as an id has a status entry its progress never
\* decreases and a completed or error status never changes.
C27_RegistryAndStatus ==
    [][/\ \A d \in 1..MaxDocs :
             d \in DOMAIN document_registry' <=> Completed(processing_status', d)
       /\ \A d \in DOMAIN processing_status \cap DOMAIN processing_status' :
             /\ processing_status'[d].progress >= processing_status[d].progress
             /\ processing_status[d].status \in {"completed", "error"} =>
                   processing_status'[d] = processing_status[d]]_vars

\* document 1 ended in error and is not registered; document 2 is completed
\* and registered; a query has been answered since
C27_Witness ==
    /\ QueryAnswered
    /\ DOMAIN processing_status = {1, 2}
    /\ processing_status[1].status = "error"
    /\ processing_status[1].progress = 25
    /\ Completed(processing_status, 2)
    /\ DOMAIN document_registry = {2}

\* is sub a sub-list of seq: its elements, in order, among those of seq
RECURSIVE IsSubList(_, _)
IsSubList(sub, seq) ==
    IF sub = <<>> THEN TRUE
    ELSE IF seq = <<>> THEN FALSE
    ELSE IF Head(sub) = Head(seq) THEN IsSubList(Tail(sub), Tail(seq))
    ELSE IsSubList(sub, Tail(seq))

\* C28: in every QueryAnalysis analyze_query produces, on the normal and on
\* the default path, the suggested template is visual_response if and only
\* if requires_visuals is true; requires_visuals is true exactly when the
\* intent is visual or comparative or visual_keywords is not empty; and
\* visual_keywords is a sub-list of keywords.
C28_VisualsAndTemplate ==
    Analyzed =>
        /\ analysis.value.suggested_template = "visual_response"
              <=> analysis.value.requires_visuals
        /\ analysis.value.requires_visuals
              <=> (analysis.value.intent \in {"visual", "comparative"}
                     \/ analysis.value.visual_keywords # <<>>)
        /\ IsSubList(analysis.value.visual_keywords, analysis.value.keywords)

\* a comparative query without visual keywords: visuals are required and
\* the template is the visual one; its keywords are more than the visual ones
C28_Witness ==
    /\ Analyzed
    /\ query = StrQuery("compare report")
    /\ analysis.value.intent = "comparative"
    /\ analysis.value.visual_keywords = <<>>
    /\ analysis.value.keywords = <<"compare", "report">>
    /\ analysis.value.requires_visuals
    /\ analysis.value.suggested_template = "visual_response"

-----------------------------------------------------------------------------
(* Properties of the server's handlers, checked under SpecServer *)

\* the request fails the handler's validation: no or an empty query, a
\* filename that is not a PDF's, or a content of more than 50MB
FailsValidation(request) ==
    IF request.op = "query"
    THEN ~request.body.given \/ request.body.query.text = ""
    ELSE ~request.file.pdf \/ request.file.size > 50 * 1024 * 1024

\* the step leaves the RAG pipeline alone: nothing is processed, analysed,
\* retrieved or generated
PipelineNotInvoked ==
    /\ UNCHANGED storeVars
    /\ UNCHANGED <<analysis, retrieval, response, calls, reply>>

\* C29: every request that fails the validation of POST /api/query or of
\* POST /api/documents/upload is answered with status 400, and the RAG
\* pipeline is not invoked for it.
C29_ValidationIs400 ==
    [][(http = None /\ http' # None /\ FailsValidation(http'.request))
          => (http'.status_code = 400 /\ PipelineNotInvoked)]_vars

\* a request that failed validation was answered: the HTTPException(400) the
\* handler raised went through its 'except Exception' and the client has
\* 500; the pipeline has nothing of the request
C29_Witness ==
    /\ http # None
    /\ FailsValidation(http.request)
    /\ http.status_code = 500
    /\ http.detail.cause.status_code = 400
    /\ analysis = None
    /\ calls = None
    /\ reply = None

-----------------------------------------------------------------------------
(* Properties of query_documents, checked under SpecOrch *)

\* query_documents has returned
QueryReturned == reply # None /\ query.str

====
